---- MODULE Spec2Model ----
(***************************************************************************)
(* A model of loggery's dispatch core (src/src/lib.rs): the two-tier level *)
(* gate, the lock-free sink and extension slots, and `log`.                *)
(*                                                                         *)
(* Spec is the dynamic build (feature `static` off) with the `extension`   *)
(* and `runtime_level` features on.  A build without `extension` behaves   *)
(* as this one does while set_extension is never called, and a build       *)
(* without `runtime_level` as this one does while set_min_level is never   *)
(* called (RUNTIME_MIN_LEVEL stays Trace = 0, which rejects nothing).  The *)
(* `std` feature and the `min_level_*` features are build parameters       *)
(* chosen in Init and never changed.  FairSpec is Spec under fair          *)
(* scheduling of every thread that is inside a call.  SpecStatic is the    *)
(* static build (features `static` and `extension` on), where sink and     *)
(* extension are extern symbols resolved when the program is linked.       *)
(*                                                                         *)
(* Every atomic access of the source is one step of the calling thread, so *)
(* threads interleave between any two accesses.  Option<T> values are      *)
(* sequences: None is <<>> and Some(x) is <<x>>.                           *)
(***************************************************************************)
EXTENDS Integers, Sequences, FiniteSets, TLC

\* ---------------------------------------------------------------- bounds
NumThreads == 2
MaxCalls == 3

Threads == 1..NumThreads

\* ------------------------------------------------------------- the types
\* enum Level, #[repr(u8)]
Trace == 0
Debug == 1
Info == 2
Warn == 3
Error == 4
Level == {Trace, Debug, Info, Warn, Error}

None == <<>>
Some(x) == <<x>>
IsSome(o) == Len(o) = 1
Unwrap(o) == o[1]

\* Level::from_u8
from_u8(value) == IF value \in Level THEN Some(value) ELSE None

\* The message texts a call site can pass (Payload.args).
Args == {"m1", "m2"}
\* struct Payload
Payload == [level : Level, args : Args]

\* Function pointers.  null is core::ptr::null_mut(); the sinks an embedder
\* can register are logger_a and logger_b, the extension is extension_a.
null == "null"
stdout_logger_fn == "stdout::logger_fn"
LoggerFns == {"logger_a", "logger_b"}
ExtensionFns == {"extension_a"}
\* A local that is out of scope.
NoPtr == "-"

\* -------------------------------------------------------------- the state
VARIABLES
    COMPILE_TIME_MIN_LEVEL, \* Option<u8>, fixed by the min_level_* features
    feature_std,            \* cfg!(feature = "std"), fixed by the build
    feature_static,         \* cfg!(feature = "static"), fixed by the build
    embedder_symbols,       \* the extern symbols the embedding program defines
    program,                \* "unlinked", "running" or "link_error"
    LOGGER_FN,              \* AtomicPtr<()>
    EXTENSION_FN,           \* AtomicPtr<()>
    RUNTIME_MIN_LEVEL,      \* AtomicU8
    pc,                     \* per thread: where it is in its current call
    op,                     \* per thread: the call it is in, or made last
    payload,                \* per thread: log's argument
    runtime_min_level,      \* per thread: log's local (line 506), Option
    extension_fn,           \* per thread: log's local (line 520)
    ptr,                    \* per thread: get_logger's local (line 577)
    logger_fn,              \* per thread: get_logger's new_ptr / result, log's logger_fn (line 532)
    calls,                  \* per thread: the extension and sink invocations of its dispatch
    ret,                    \* per thread: what get_min_level returned
    seen_level,             \* per thread: history, the last set_min_level argument when get_min_level ran
    since,                  \* per thread: history, the setters that returned after its call started
    registered,             \* history: the arguments of the last two set_logger calls
    last_set_level,         \* history: the argument of the last set_min_level call, Option
    cas_ok_count,           \* history: compare_exchange calls that returned Ok
    written_levels,         \* history: the initial floor and every set_min_level argument
    set_extension_called,   \* history: whether set_extension was ever called
    calls_made              \* number of API calls started

build == <<COMPILE_TIME_MIN_LEVEL, feature_std, feature_static, embedder_symbols, program>>
slots == <<LOGGER_FN, EXTENSION_FN>>
locals == <<payload, runtime_min_level, extension_fn, ptr, logger_fn, calls, ret, seen_level>>
vars == <<COMPILE_TIME_MIN_LEVEL, feature_std, feature_static, embedder_symbols, program,
          LOGGER_FN, EXTENSION_FN, RUNTIME_MIN_LEVEL,
          pc, op, payload, runtime_min_level, extension_fn, ptr, logger_fn, calls, ret,
          seen_level, since, registered, last_set_level, cas_ok_count, written_levels,
          set_extension_called, calls_made>>

NoPayload == [level |-> Trace, args |-> "m1"]

\* A floor that starts at the most restrictive level.
RUNTIME_MIN_LEVEL_init_error == Error

\* static RUNTIME_MIN_LEVEL, line 338: AtomicU8::new(Level::Trace as u8)
RUNTIME_MIN_LEVEL_init == Trace

\* The statics and every thread's locals when the program starts.
InitProgram ==
    /\ COMPILE_TIME_MIN_LEVEL \in {None} \cup {Some(l) : l \in Level}
    /\ feature_std \in BOOLEAN
    /\ LOGGER_FN = null
    /\ EXTENSION_FN = null
    /\ RUNTIME_MIN_LEVEL = RUNTIME_MIN_LEVEL_init
    /\ pc = [t \in Threads |-> "idle"]
    /\ op = [t \in Threads |-> "none"]
    /\ payload = [t \in Threads |-> NoPayload]
    /\ runtime_min_level = [t \in Threads |-> None]
    /\ extension_fn = [t \in Threads |-> NoPtr]
    /\ ptr = [t \in Threads |-> NoPtr]
    /\ logger_fn = [t \in Threads |-> NoPtr]
    /\ calls = [t \in Threads |-> <<>>]
    /\ ret = [t \in Threads |-> None]
    /\ seen_level = [t \in Threads |-> None]
    /\ since = [t \in Threads |-> {}]
    /\ registered = <<>>
    /\ last_set_level = None
    /\ cas_ok_count = 0
    /\ written_levels = {RUNTIME_MIN_LEVEL_init}
    /\ set_extension_called = FALSE
    /\ calls_made = 0

\* The dynamic build: no extern symbol is referenced, the program runs.
Init ==
    /\ InitProgram
    /\ feature_static = FALSE
    /\ embedder_symbols = {}
    /\ program = "running"

\* -------------------------------------------------------- pure functions
Max(a, b) == IF a >= b THEN a ELSE b

\* A gate that forgets the comparison with the compile-time floor.
is_compile_time_enabled_any_level(compile_time, level) == IsSome(compile_time)

\* log, lines 495-498: is_compile_time_enabled
is_compile_time_enabled(compile_time, level) ==
    IF IsSome(compile_time) THEN level >= Unwrap(compile_time) ELSE FALSE

\* A runtime test that also rejects a record at the floor itself.
runtime_rejects_at_floor(level, runtime) == level <= runtime

\* A runtime test that lets a record one level below the floor through.
runtime_rejects_two_below(level, runtime) == level + 1 < runtime

\* log, line 508: the runtime test that makes log return
runtime_rejects(level, runtime) == level < runtime

\* A get_min_level that takes the looser of the two floors.
get_min_level_min(compile_time, runtime) ==
    IF IsSome(compile_time)
    THEN from_u8(IF Unwrap(compile_time) <= runtime THEN Unwrap(compile_time) ELSE runtime)
    ELSE None

\* A get_min_level that reports the compile-time floor whatever the runtime floor.
get_min_level_compile_only(compile_time, runtime) ==
    IF IsSome(compile_time) THEN from_u8(Unwrap(compile_time)) ELSE None

\* A get_min_level that reports the runtime floor, not the stricter of the two.
get_min_level_runtime_only(compile_time, runtime) ==
    IF IsSome(compile_time) THEN from_u8(runtime) ELSE None

\* get_min_level, lines 471-488, given the value loaded from RUNTIME_MIN_LEVEL
get_min_level(compile_time, runtime) ==
    IF IsSome(compile_time) THEN from_u8(Max(Unwrap(compile_time), runtime)) ELSE None

\* A store that is not atomic: written over another registration it leaves a
\* pointer that is neither.
set_logger_torn(slot, f) == IF slot \in LoggerFns /\ slot # f THEN "torn" ELSE f

\* A set_logger that registers only into an empty slot (first write wins).
set_logger_once(slot, f) == IF slot = null THEN f ELSE slot

\* set_logger, line 379: what LOGGER_FN holds after the store
set_logger(slot, f) == f

\* set_extension, lines 424-427: what EXTENSION_FN holds after the store
set_extension(slot, f) == f

\* A torn store: the high bits of the old value with the low bit of the new.
set_min_level_torn(slot, level) == (slot \div 2) * 2 + (level % 2)

\* A set_min_level that can raise the floor but not lower it.
set_min_level_only_raises(slot, level) == IF level > slot THEN level ELSE slot

\* set_min_level, line 454: what RUNTIME_MIN_LEVEL holds after the store
set_min_level(slot, level) == level

\* An exchange that, finding the slot changed, puts the expected value back.
compare_exchange_resets(slot, current, new) == IF slot = current THEN new ELSE current

\* An exchange with the comparison inverted: it writes when the slot differs.
compare_exchange_inverted(slot, current, new) == IF slot # current THEN new ELSE slot

\* An unconditional store in place of the compare-and-swap.
compare_exchange_stores(slot, current, new) == new

\* A compare-and-swap that never writes.
compare_exchange_keeps(slot, current, new) == slot

\* AtomicPtr::compare_exchange(current, new): the value the slot holds after it
compare_exchange(slot, current, new) == IF slot = current THEN new ELSE slot

\* An exchange that reports success to every caller.
compare_exchange_ok_always(slot, current) == TRUE

\* ... and whether it returned Ok
compare_exchange_ok(slot, current) == slot = current

\* ptr_to_logger_fn / ptr_to_extension_fn: a transmute, the pointer unchanged
ptr_to_logger_fn(p) == p
ptr_to_extension_fn(p) == p

\* What a sink or an extension is called with.
Invocation(callee, f, p) == [callee |-> callee, fn |-> f, level |-> p.level, args |-> p.args]

\* ---------------------------------------------------------- call framing
\* Thread t, in no call, starts the call `name`: its locals are fresh, and
\* `since` restarts for it.  A setter of kind `name` is recorded for the other
\* threads' dispatches, and so is the first set_logger call of the run.
Begin(t, name, p, rml, r, seen) ==
    /\ program = "running"
    /\ pc[t] = "idle"
    /\ calls_made < MaxCalls
    /\ calls_made' = calls_made + 1
    /\ op' = [op EXCEPT ![t] = name]
    /\ payload' = [payload EXCEPT ![t] = p]
    /\ runtime_min_level' = [runtime_min_level EXCEPT ![t] = rml]
    /\ ret' = [ret EXCEPT ![t] = r]
    /\ seen_level' = [seen_level EXCEPT ![t] = seen]
    /\ extension_fn' = [extension_fn EXCEPT ![t] = NoPtr]
    /\ ptr' = [ptr EXCEPT ![t] = NoPtr]
    /\ logger_fn' = [logger_fn EXCEPT ![t] = NoPtr]
    /\ calls' = [calls EXCEPT ![t] = <<>>]
    /\ since' = [u \in Threads |->
                   IF u = t THEN {}
                   ELSE IF /\ name \in {"set_logger", "set_extension", "set_min_level"}
                           /\ op[u] = "log"
                        THEN since[u] \cup {name} \cup
                             (IF name = "set_logger" /\ registered = <<>>
                              THEN {"first set_logger"} ELSE {})
                        ELSE since[u]]

\* ------------------------------------------------------------ operations
\* set_logger, lines 378-380: one Release store
SetLogger(t, f) ==
    /\ Begin(t, "set_logger", NoPayload, None, None, None)
    /\ LOGGER_FN' = set_logger(LOGGER_FN, f)
    /\ registered' = IF Len(registered) < 2 THEN Append(registered, f)
                     ELSE <<registered[2], f>>
    /\ UNCHANGED <<build, EXTENSION_FN, RUNTIME_MIN_LEVEL, pc, last_set_level, cas_ok_count, written_levels,
                   set_extension_called>>

\* A set_extension that stores into the slot of set_logger, from which it was
\* copied.
SetExtension_into_logger_slot(t, f) ==
    /\ Begin(t, "set_extension", NoPayload, None, None, None)
    /\ LOGGER_FN' = set_extension(LOGGER_FN, f)
    /\ set_extension_called' = TRUE
    /\ UNCHANGED <<build, EXTENSION_FN, RUNTIME_MIN_LEVEL, pc, registered, last_set_level,
                   cas_ok_count, written_levels>>

\* set_extension, lines 423-428: one Release store
SetExtension(t, f) ==
    /\ Begin(t, "set_extension", NoPayload, None, None, None)
    /\ EXTENSION_FN' = set_extension(EXTENSION_FN, f)
    /\ set_extension_called' = TRUE
    /\ UNCHANGED <<build, LOGGER_FN, RUNTIME_MIN_LEVEL, pc, registered, last_set_level,
                   cas_ok_count, written_levels>>

\* set_min_level, lines 453-455: one Release store
SetMinLevel(t, level) ==
    /\ Begin(t, "set_min_level", NoPayload, None, None, None)
    /\ RUNTIME_MIN_LEVEL' = set_min_level(RUNTIME_MIN_LEVEL, level)
    /\ last_set_level' = Some(level)
    /\ written_levels' = written_levels \cup {level}
    /\ UNCHANGED <<build, slots, pc, registered, cas_ok_count, set_extension_called>>

\* get_min_level, lines 471-488: at most one Relaxed load
GetMinLevel(t) ==
    /\ Begin(t, "get_min_level", NoPayload, None,
             get_min_level(COMPILE_TIME_MIN_LEVEL, RUNTIME_MIN_LEVEL), last_set_level)
    /\ UNCHANGED <<build, slots, RUNTIME_MIN_LEVEL, pc, registered, last_set_level,
                   cas_ok_count, written_levels,
                   set_extension_called>>

\* log, lines 494-511: the gate.  The compile-time test reads a constant; the
\* runtime test is one Relaxed load, made only when the compile-time test passed.
Log(t, p) ==
    /\ IF ~is_compile_time_enabled(COMPILE_TIME_MIN_LEVEL, p.level)
       THEN /\ Begin(t, "log", p, None, None, None)
            /\ pc' = pc
       ELSE /\ Begin(t, "log", p, Some(RUNTIME_MIN_LEVEL), None, None)
            /\ pc' = [pc EXCEPT ![t] = IF runtime_rejects(p.level, RUNTIME_MIN_LEVEL)
                                       THEN "idle" ELSE "get_extension"]
    /\ UNCHANGED <<build, slots, RUNTIME_MIN_LEVEL, registered, last_set_level, cas_ok_count, written_levels,
                   set_extension_called>>

\* A get_extension that, like get_logger, installs a default into an empty
\* slot and returns it.
GetExtension_installs_default(t) ==
    /\ pc[t] = "get_extension"
    /\ EXTENSION_FN' = IF EXTENSION_FN = null THEN "extension_a" ELSE EXTENSION_FN
    /\ extension_fn' = [extension_fn EXCEPT ![t] = ptr_to_extension_fn(EXTENSION_FN')]
    /\ pc' = [pc EXCEPT ![t] = "call_extension"]
    /\ UNCHANGED <<build, LOGGER_FN, RUNTIME_MIN_LEVEL, op, payload, runtime_min_level, ptr,
                   logger_fn, calls, ret, seen_level, since, registered, last_set_level,
                   cas_ok_count, written_levels, set_extension_called, calls_made>>

\* A dispatch that never consults the extension slot.
GetExtension_skips(t) ==
    /\ pc[t] = "get_extension"
    /\ pc' = [pc EXCEPT ![t] = "get_logger"]
    /\ UNCHANGED <<build, slots, RUNTIME_MIN_LEVEL, op, locals, since, registered,
                   last_set_level, cas_ok_count, written_levels,
                   set_extension_called, calls_made>>

\* log, line 520 with get_extension, lines 605-613: one Acquire load
GetExtension(t) ==
    /\ pc[t] = "get_extension"
    /\ IF EXTENSION_FN = null
       THEN /\ pc' = [pc EXCEPT ![t] = "get_logger"]
            /\ UNCHANGED extension_fn
       ELSE /\ pc' = [pc EXCEPT ![t] = "call_extension"]
            /\ extension_fn' = [extension_fn EXCEPT ![t] = ptr_to_extension_fn(EXTENSION_FN)]
    /\ UNCHANGED <<build, slots, RUNTIME_MIN_LEVEL, op, payload, runtime_min_level, ptr,
                   logger_fn, calls, ret, seen_level, since, registered, last_set_level,
                   cas_ok_count, written_levels,
                   set_extension_called, calls_made>>

\* log, line 521: extension_fn(&payload)
CallExtension(t) ==
    /\ pc[t] = "call_extension"
    /\ calls' = [calls EXCEPT ![t] = Append(@, Invocation("extension", extension_fn[t], payload[t]))]
    /\ extension_fn' = [extension_fn EXCEPT ![t] = NoPtr]
    /\ pc' = [pc EXCEPT ![t] = "get_logger"]
    /\ UNCHANGED <<build, slots, RUNTIME_MIN_LEVEL, op, payload, runtime_min_level, ptr,
                   logger_fn, ret, seen_level, since, registered, last_set_level,
                   cas_ok_count, written_levels,
                   set_extension_called, calls_made>>

\* A get_logger that goes on to install the default sink in a build that
\* has none (the cfg(feature = "std") test lost).
GetLoggerLoad_ignores_std(t) ==
    /\ pc[t] = "get_logger"
    /\ IF LOGGER_FN = null
       THEN /\ pc' = [pc EXCEPT ![t] = "compare_exchange"]
            /\ ptr' = [ptr EXCEPT ![t] = null]
            /\ UNCHANGED logger_fn
       ELSE /\ pc' = [pc EXCEPT ![t] = "call_logger"]
            /\ ptr' = [ptr EXCEPT ![t] = LOGGER_FN]
            /\ logger_fn' = [logger_fn EXCEPT ![t] = ptr_to_logger_fn(LOGGER_FN)]
    /\ UNCHANGED <<build, slots, RUNTIME_MIN_LEVEL, op, payload, runtime_min_level,
                   extension_fn, calls, ret, seen_level, since, registered, last_set_level,
                   cas_ok_count, written_levels,
                   set_extension_called, calls_made>>

\* get_logger, lines 577-579 and 595-599: the first Acquire load
GetLoggerLoad(t) ==
    /\ pc[t] = "get_logger"
    /\ IF LOGGER_FN = null
       THEN IF feature_std
            THEN /\ pc' = [pc EXCEPT ![t] = "compare_exchange"]
                 /\ ptr' = [ptr EXCEPT ![t] = null]
                 /\ UNCHANGED logger_fn
            ELSE \* return None: log calls nothing and returns
                 /\ pc' = [pc EXCEPT ![t] = "idle"]
                 /\ UNCHANGED <<ptr, logger_fn>>
       ELSE /\ pc' = [pc EXCEPT ![t] = "call_logger"]
            /\ ptr' = [ptr EXCEPT ![t] = LOGGER_FN]
            /\ logger_fn' = [logger_fn EXCEPT ![t] = ptr_to_logger_fn(LOGGER_FN)]
    /\ UNCHANGED <<build, slots, RUNTIME_MIN_LEVEL, op, payload, runtime_min_level,
                   extension_fn, calls, ret, seen_level, since, registered, last_set_level,
                   cas_ok_count, written_levels,
                   set_extension_called, calls_made>>

\* A get_logger that starts over when its compare_exchange fails.
GetLoggerCompareExchange_retries(t) ==
    /\ pc[t] = "compare_exchange"
    /\ LOGGER_FN' = compare_exchange(LOGGER_FN, null, stdout_logger_fn)
    /\ cas_ok_count' = IF compare_exchange_ok(LOGGER_FN, null) THEN cas_ok_count + 1
                       ELSE cas_ok_count
    /\ pc' = [pc EXCEPT ![t] = IF compare_exchange_ok(LOGGER_FN, null)
                               THEN "reload" ELSE "get_logger"]
    /\ UNCHANGED <<build, EXTENSION_FN, RUNTIME_MIN_LEVEL, op, locals, since, registered,
                   last_set_level, written_levels, set_extension_called, calls_made>>

\* get_logger, lines 582-587: compare_exchange(null, stdout::logger_fn), result dropped
GetLoggerCompareExchange(t) ==
    /\ pc[t] = "compare_exchange"
    /\ LOGGER_FN' = compare_exchange(LOGGER_FN, null, stdout_logger_fn)
    /\ cas_ok_count' = IF compare_exchange_ok(LOGGER_FN, null) THEN cas_ok_count + 1
                       ELSE cas_ok_count
    /\ pc' = [pc EXCEPT ![t] = "reload"]
    /\ UNCHANGED <<build, EXTENSION_FN, RUNTIME_MIN_LEVEL, op, locals, since, registered,
                   last_set_level, written_levels, set_extension_called, calls_made>>

\* A get_logger that returns the default it tried to install, without
\* loading the slot again.
GetLoggerReload_returns_default(t) ==
    /\ pc[t] = "reload"
    /\ logger_fn' = [logger_fn EXCEPT ![t] = ptr_to_logger_fn(stdout_logger_fn)]
    /\ pc' = [pc EXCEPT ![t] = "call_logger"]
    /\ UNCHANGED <<build, slots, RUNTIME_MIN_LEVEL, op, payload, runtime_min_level,
                   extension_fn, ptr, calls, ret, seen_level, since, registered,
                   last_set_level, cas_ok_count, written_levels, set_extension_called,
                   calls_made>>

\* get_logger, lines 590-592: the second Acquire load, returned as Some(..)
GetLoggerReload(t) ==
    /\ pc[t] = "reload"
    /\ logger_fn' = [logger_fn EXCEPT ![t] = ptr_to_logger_fn(LOGGER_FN)]
    /\ pc' = [pc EXCEPT ![t] = "call_logger"]
    /\ UNCHANGED <<build, slots, RUNTIME_MIN_LEVEL, op, payload, runtime_min_level,
                   extension_fn, ptr, calls, ret, seen_level, since, registered,
                   last_set_level, cas_ok_count, written_levels,
                   set_extension_called, calls_made>>

\* log, line 533: logger_fn(payload).  Calling a null function pointer is
\* undefined behaviour: the thread may crash ("ub") or return as if nothing
\* was called.
CallLogger(t) ==
    /\ pc[t] = "call_logger"
    /\ IF logger_fn[t] = null
       THEN /\ pc' \in {[pc EXCEPT ![t] = "ub"], [pc EXCEPT ![t] = "idle"]}
            /\ UNCHANGED calls
       ELSE /\ pc' = [pc EXCEPT ![t] = "idle"]
            /\ calls' = [calls EXCEPT ![t] = Append(@, Invocation("logger", logger_fn[t], payload[t]))]
    /\ logger_fn' = [logger_fn EXCEPT ![t] = NoPtr]
    /\ ptr' = [ptr EXCEPT ![t] = NoPtr]
    /\ UNCHANGED <<build, slots, RUNTIME_MIN_LEVEL, op, payload, runtime_min_level,
                   extension_fn, ret, seen_level, since, registered, last_set_level,
                   cas_ok_count, written_levels,
                   set_extension_called, calls_made>>

Next ==
    \/ \E t \in Threads, f \in LoggerFns : SetLogger(t, f)
    \/ \E t \in Threads, f \in ExtensionFns : SetExtension(t, f)
    \/ \E t \in Threads, level \in Level : SetMinLevel(t, level)
    \/ \E t \in Threads : GetMinLevel(t)
    \/ \E t \in Threads, p \in Payload : Log(t, p)
    \/ \E t \in Threads : GetExtension(t)
    \/ \E t \in Threads : CallExtension(t)
    \/ \E t \in Threads : GetLoggerLoad(t)
    \/ \E t \in Threads : GetLoggerCompareExchange(t)
    \/ \E t \in Threads : GetLoggerReload(t)
    \/ \E t \in Threads : CallLogger(t)

Spec == Init /\ [][Next]_vars

\* A step of the call thread t is inside.
Step(t) ==
    \/ GetExtension(t)
    \/ CallExtension(t)
    \/ GetLoggerLoad(t)
    \/ GetLoggerCompareExchange(t)
    \/ GetLoggerReload(t)
    \/ CallLogger(t)

\* Spec with every thread that is inside a call scheduled again: log has no
\* lock, wait or loop, and the sink and the extension return when called.
FairSpec == Spec /\ \A t \in Threads : WF_vars(Step(t))

\* -------------------------------------------------------- the static build
\* extern "Rust" block, lines 284-325: the symbols log refers to in a build
\* with the `static` and `extension` features.
ExternSymbols == {"__loggery_log_impl", "__loggery_extension_impl"}

\* The extern symbols the crate itself defines: mod static_impl_std, lines
\* 877-888, compiled when `static` and `std` are both on, defines
\* __loggery_log_impl and nothing else.
CrateSymbols(std) == IF std THEN {"__loggery_log_impl"} ELSE {}

\* The extern symbols with a definition in the linked program.
DefinedSymbols == CrateSymbols(feature_std) \cup embedder_symbols

\* The function __loggery_log_impl is: the embedder's, or the crate's, which
\* forwards to stdout::logger_fn (line 886).
log_impl ==
    IF "__loggery_log_impl" \in embedder_symbols THEN "embedder::__loggery_log_impl"
    ELSE stdout_logger_fn

\* The static build before it is linked.  The embedder defines any of the
\* symbols the crate does not define itself.
InitStatic ==
    /\ InitProgram
    /\ feature_static = TRUE
    /\ embedder_symbols \in SUBSET (ExternSymbols \ CrateSymbols(feature_std))
    /\ program = "unlinked"

\* Linking the program.  Every extern symbol log calls (lines 515, 527) needs
\* a definition; a symbol without one is a link error.  With the compile-time
\* floor Off the calls sit behind a test that is constantly false, and
\* whether the build drops the references before linking is up to the build.
Link ==
    /\ program = "unlinked"
    /\ program' \in IF ExternSymbols \subseteq DefinedSymbols THEN {"running"}
                    ELSE IF COMPILE_TIME_MIN_LEVEL = None THEN {"running", "link_error"}
                    ELSE {"link_error"}
    /\ UNCHANGED <<COMPILE_TIME_MIN_LEVEL, feature_std, feature_static, embedder_symbols,
                   slots, RUNTIME_MIN_LEVEL, pc, op, locals, since, registered,
                   last_set_level, cas_ok_count, written_levels, set_extension_called,
                   calls_made>>

\* log, lines 494-511, in the static build: the same gate, then the extern calls
LogStatic(t, p) ==
    /\ IF ~is_compile_time_enabled(COMPILE_TIME_MIN_LEVEL, p.level)
       THEN /\ Begin(t, "log", p, None, None, None)
            /\ pc' = pc
       ELSE /\ Begin(t, "log", p, Some(RUNTIME_MIN_LEVEL), None, None)
            /\ pc' = [pc EXCEPT ![t] = IF runtime_rejects(p.level, RUNTIME_MIN_LEVEL)
                                       THEN "idle" ELSE "extension_impl"]
    /\ UNCHANGED <<build, slots, RUNTIME_MIN_LEVEL, registered, last_set_level, cas_ok_count,
                   written_levels, set_extension_called>>

\* log, lines 513-516: unsafe { __loggery_extension_impl(&payload) }
CallExtensionImpl(t) ==
    /\ pc[t] = "extension_impl"
    /\ calls' = [calls EXCEPT ![t] =
                    Append(@, Invocation("extension", "__loggery_extension_impl", payload[t]))]
    /\ pc' = [pc EXCEPT ![t] = "log_impl"]
    /\ UNCHANGED <<build, slots, RUNTIME_MIN_LEVEL, op, payload, runtime_min_level,
                   extension_fn, ptr, logger_fn, ret, seen_level, since, registered,
                   last_set_level, cas_ok_count, written_levels, set_extension_called,
                   calls_made>>

\* log, lines 525-528: unsafe { __loggery_log_impl(payload) }
CallLogImpl(t) ==
    /\ pc[t] = "log_impl"
    /\ calls' = [calls EXCEPT ![t] = Append(@, Invocation("logger", log_impl, payload[t]))]
    /\ pc' = [pc EXCEPT ![t] = "idle"]
    /\ UNCHANGED <<build, slots, RUNTIME_MIN_LEVEL, op, payload, runtime_min_level,
                   extension_fn, ptr, logger_fn, ret, seen_level, since, registered,
                   last_set_level, cas_ok_count, written_levels, set_extension_called,
                   calls_made>>

\* The static build has no set_logger and no set_extension (lines 376, 421).
NextStatic ==
    \/ Link
    \/ \E t \in Threads, level \in Level : SetMinLevel(t, level)
    \/ \E t \in Threads : GetMinLevel(t)
    \/ \E t \in Threads, p \in Payload : LogStatic(t, p)
    \/ \E t \in Threads : CallExtensionImpl(t)
    \/ \E t \in Threads : CallLogImpl(t)

SpecStatic == InitStatic /\ [][NextStatic]_vars

\* ------------------------------------------------------- reading a state
\* The dispatch of thread t has returned.
Dispatched(t) == op[t] = "log" /\ pc[t] = "idle"

\* The sink, resp. extension, invocations of thread t's dispatch.
SinkCalls(t) == SelectSeq(calls[t], LAMBDA c : c.callee = "logger")
ExtensionCalls(t) == SelectSeq(calls[t], LAMBDA c : c.callee = "extension")

\* Thread t's dispatch passed the compile-time test and loaded the runtime floor.
LoadedFloor(t) == op[t] = "log" /\ IsSome(runtime_min_level[t])

\* A sink was available to thread t's dispatch from its start: the default
\* sink is compiled in, or a set_logger returned before the dispatch started
\* (the slot never returns to null).
SinkAvailable(t) == feature_std \/ (registered # <<>> /\ "set_logger" \notin since[t])

\* -------------------------------------------------------------------- C1
\* C1: a dispatch that had a sink available has invoked the sink when it
\* returns if and only if the compile floor is not Off, the record's level is
\* at least the compile floor, and it is at least the runtime floor the gate
\* read.
C1_SinkInvokedIffEnabled ==
    \A t \in Threads :
        (Dispatched(t) /\ SinkAvailable(t)) =>
            ( Len(SinkCalls(t)) > 0
              <=> /\ COMPILE_TIME_MIN_LEVEL # None
                  /\ payload[t].level >= Unwrap(COMPILE_TIME_MIN_LEVEL)
                  /\ payload[t].level >= Unwrap(runtime_min_level[t]) )

\* C1 witness: under a compile floor above Trace and a runtime floor set above
\* it, one dispatch at the runtime floor reached the sink and another, below
\* the runtime floor but not below the compile floor, did not.
C1_Witness ==
    \E t, u \in Threads :
        /\ Dispatched(t) /\ Dispatched(u) /\ SinkAvailable(t) /\ SinkAvailable(u)
        /\ COMPILE_TIME_MIN_LEVEL = Some(Debug)
        /\ runtime_min_level[t] = Some(Warn) /\ runtime_min_level[u] = Some(Warn)
        /\ payload[t].level = Warn /\ Len(SinkCalls(t)) = 1
        /\ payload[u].level = Info /\ Len(SinkCalls(u)) = 0

C2_WitnessOff ==
    \E t \in Threads :
        /\ COMPILE_TIME_MIN_LEVEL = None
        /\ op[t] = "get_min_level" /\ seen_level[t] = Some(Error) /\ ret[t] = None

\* -------------------------------------------------------------------- C3
\* C3: whatever set_min_level calls were made, every invocation of the sink
\* or of the extension carries a level at or above the compile floor, and
\* there is no invocation at all when the compile floor is Off.
C3_NothingBelowCompileFloor ==
    \A t \in Threads : \A i \in 1..Len(calls[t]) :
        /\ COMPILE_TIME_MIN_LEVEL # None
        /\ calls[t][i].level >= Unwrap(COMPILE_TIME_MIN_LEVEL)

\* C3 witness: the runtime floor was set below the compile floor, and a
\* dispatch then invoked the extension and the sink.
C3_Witness ==
    \E t \in Threads :
        /\ COMPILE_TIME_MIN_LEVEL = Some(Warn)
        /\ last_set_level = Some(Trace)
        /\ runtime_min_level[t] = Some(Trace)
        /\ Dispatched(t) /\ Len(ExtensionCalls(t)) = 1 /\ Len(SinkCalls(t)) = 1

\* -------------------------------------------------------------------- C4
\* Thread t has been through get_logger's compare_exchange in its dispatch.
PastCompareExchange(t) == pc[t] \in {"reload", "call_logger"} /\ ptr[t] = null

\* C4: with the default sink compiled in and set_logger never called, every
\* thread that resolved a sink holds the default sink, every sink invocation
\* is of the default sink, the slot holds the default as soon as one thread
\* is past its compare_exchange, and exactly one compare_exchange returned Ok
\* once the slot is filled (none before).
C4_OneDefaultForAll ==
    (feature_std /\ registered = <<>>) =>
        /\ \A t \in Threads :
              /\ pc[t] = "call_logger" => logger_fn[t] = stdout_logger_fn
              /\ \A i \in 1..Len(SinkCalls(t)) : SinkCalls(t)[i].fn = stdout_logger_fn
              /\ PastCompareExchange(t) => LOGGER_FN = stdout_logger_fn
        /\ LOGGER_FN \in {null, stdout_logger_fn}
        /\ cas_ok_count = IF LOGGER_FN = null THEN 0 ELSE 1

\* C4 witness: every thread loaded the empty slot and has attempted the
\* compare_exchange (all are at the reload), with no set_logger call.
C4_Witness ==
    /\ feature_std /\ registered = <<>>
    /\ \A t \in Threads : pc[t] = "reload" /\ ptr[t] = null
    /\ LOGGER_FN = stdout_logger_fn /\ cas_ok_count = 1

\* -------------------------------------------------------------------- C5
\* C5: when set_logger(A) and then set_logger(B) have returned and no
\* set_logger returned since thread t's dispatch started, the sink the
\* dispatch resolved and every sink it invoked is B, and is not A when A
\* differs from B.
C5_LastWriteWins ==
    \A t \in Threads :
        (op[t] = "log" /\ Len(registered) = 2 /\ "set_logger" \notin since[t]) =>
            /\ pc[t] = "call_logger" => logger_fn[t] = registered[2]
            /\ \A i \in 1..Len(SinkCalls(t)) :
                  /\ SinkCalls(t)[i].fn = registered[2]
                  /\ registered[1] # registered[2] => SinkCalls(t)[i].fn # registered[1]

\* C5 witness: set_logger(logger_a), then set_logger(logger_b), then a
\* dispatch that started after both invoked a sink.
C5_Witness ==
    \E t \in Threads :
        /\ registered = <<"logger_a", "logger_b">>
        /\ Dispatched(t) /\ "set_logger" \notin since[t]
        /\ Len(SinkCalls(t)) = 1

\* -------------------------------------------------------------------- C6
\* C6: once a set_logger has returned, the slot holds the sink of the last
\* set_logger, whatever compare_exchange a dispatching thread makes
\* afterwards; and a dispatch during which no set_logger returned, started
\* after one, resolves and invokes that sink, never the default.
C6_RegistrationBeatsDefault ==
    registered # <<>> =>
        /\ LOGGER_FN = registered[Len(registered)]
        /\ \A t \in Threads :
              (op[t] = "log" /\ "set_logger" \notin since[t]) =>
                  /\ pc[t] = "call_logger" => logger_fn[t] \in LoggerFns
                  /\ \A i \in 1..Len(SinkCalls(t)) : SinkCalls(t)[i].fn = LOGGER_FN

\* C6 witness: a thread loaded the empty slot, a set_logger returned, and the
\* thread then made its compare_exchange, which failed.
C6_Witness ==
    \E t \in Threads :
        /\ feature_std
        /\ pc[t] = "reload" /\ ptr[t] = null
        /\ "set_logger" \in since[t] /\ Len(registered) = 1
        /\ cas_ok_count = 0

\* -------------------------------------------------------------------- C7
\* C7: with the default sink compiled in, the pointer get_logger returns is
\* never null: a thread about to call its sink holds the default or a
\* registered sink, and no thread has called a null pointer.
C7_GetLoggerNeverEmpty ==
    feature_std =>
        \A t \in Threads :
            /\ pc[t] = "call_logger" => logger_fn[t] \in {stdout_logger_fn} \cup LoggerFns
            /\ pc[t] # "ub"
            /\ (Dispatched(t) /\ LoadedFloor(t)
                  /\ ~runtime_rejects(payload[t].level, Unwrap(runtime_min_level[t])))
               => Len(SinkCalls(t)) = 1

\* C7 witness: a thread that loaded the empty slot is about to call the
\* pointer it reloaded after its compare_exchange.
C7_Witness ==
    \E t \in Threads :
        /\ feature_std
        /\ pc[t] = "call_logger" /\ ptr[t] = null
        /\ logger_fn[t] \in {stdout_logger_fn} \cup LoggerFns

\* -------------------------------------------------------------------- C8
\* Thread t's dispatch passed both tests of the gate.
PassedGate(t) ==
    /\ LoadedFloor(t)
    /\ payload[t].level >= Unwrap(runtime_min_level[t])

\* An extension was registered before thread t's dispatch started, and a sink
\* was available to it.
BothRegistered(t) ==
    /\ EXTENSION_FN # null /\ "set_extension" \notin since[t]
    /\ SinkAvailable(t)

\* C8: a dispatch of an enabled record that started with an extension and a
\* sink registered has, when it returns, invoked the extension once and then
\* the sink once, each with the level and message of the record passed to
\* log; and while it resolves or calls its sink, its one extension
\* invocation is already complete.
C8_ExtensionThenSink ==
    \A t \in Threads :
        (PassedGate(t) /\ BothRegistered(t)) =>
            /\ pc[t] \in {"get_logger", "compare_exchange", "reload", "call_logger"} =>
                  /\ Len(calls[t]) = 1
                  /\ calls[t][1].callee = "extension"
            /\ pc[t] \in {"get_extension", "call_extension"} => calls[t] = <<>>
            /\ Dispatched(t) =>
                  /\ Len(calls[t]) = 2
                  /\ calls[t][1].callee = "extension" /\ calls[t][1].fn = EXTENSION_FN
                  /\ calls[t][2].callee = "logger"
                  /\ \A i \in 1..2 : /\ calls[t][i].level = payload[t].level
                                     /\ calls[t][i].args = payload[t].args

\* C8 witness: an extension and a sink were registered, and a dispatch of a
\* Warn record with message m2 then returned.
C8_Witness ==
    \E t \in Threads :
        /\ Dispatched(t) /\ PassedGate(t) /\ BothRegistered(t)
        /\ registered # <<>> /\ "set_logger" \notin since[t]
        /\ payload[t] = [level |-> Warn, args |-> "m2"]
        /\ Len(calls[t]) = 2

\* -------------------------------------------------------------------- C9
\* C9: in a build without the default sink, while set_logger has never been
\* called, the sink slot is empty, no dispatch has invoked a sink, and no
\* thread is in the default installation, about to call a sink, or crashed.
C9_NoSinkSilence ==
    (~feature_std /\ registered = <<>>) =>
        /\ LOGGER_FN = null
        /\ cas_ok_count = 0
        /\ \A t \in Threads :
              /\ Len(SinkCalls(t)) = 0
              /\ pc[t] \in {"idle", "get_extension", "call_extension", "get_logger"}

\* C9 witness: in such a build, with no set_logger call, a dispatch of a
\* record that passed the gate has returned.
C9_Witness ==
    \E t \in Threads :
        /\ ~feature_std /\ registered = <<>>
        /\ Dispatched(t) /\ PassedGate(t)
        /\ payload[t].level = Error

\* ------------------------------------------------------------------- C10
\* The gate rejects a record of this level in the current state.
GateRejects(level) ==
    \/ COMPILE_TIME_MIN_LEVEL = None
    \/ level < Unwrap(COMPILE_TIME_MIN_LEVEL)
    \/ level < RUNTIME_MIN_LEVEL

\* C10: the step in which log is called with a record the gate rejects is the
\* whole dispatch: the call has returned after it, with no extension or sink
\* invocation, and the sink slot, the extension slot and the runtime floor
\* are as they were.
C10_RejectedDispatchHasNoEffect ==
    [][\A t \in Threads, p \in Payload :
          (Log(t, p) /\ GateRejects(p.level)) =>
              /\ pc'[t] = "idle"
              /\ calls'[t] = <<>>
              /\ LOGGER_FN' = LOGGER_FN
              /\ EXTENSION_FN' = EXTENSION_FN
              /\ RUNTIME_MIN_LEVEL' = RUNTIME_MIN_LEVEL]_vars

\* C10 witness: with the default sink compiled in, the sink slot still empty
\* and an extension registered, a dispatch rejected by the runtime floor has
\* returned without invoking anything.
C10_Witness ==
    \E t \in Threads :
        /\ feature_std /\ LOGGER_FN = null /\ EXTENSION_FN # null
        /\ Dispatched(t) /\ LoadedFloor(t)
        /\ payload[t].level < Unwrap(runtime_min_level[t])
        /\ "set_extension" \notin since[t]
        /\ calls[t] = <<>>

\* ------------------------------------------------------------------- C11
\* No set_min_level has returned since the dispatch of thread t started.
FloorSettled(t) == op[t] = "log" /\ "set_min_level" \notin since[t]

\* C11: once set_min_level(R) has returned, and until the next set_min_level,
\* a dispatch that starts afterwards with a level below R returns from the
\* gate having invoked nothing, and a dispatch whose level is at least R and
\* at least the compile-time floor invokes the sink once with its record
\* (the sink being the compiled-in default or one registered before it started).
C11_RuntimeFloorAfterSet ==
    \A t \in Threads :
        (FloorSettled(t) /\ IsSome(last_set_level)) =>
            LET R == Unwrap(last_set_level)
                level == payload[t].level
            IN  /\ level < R => (Dispatched(t) /\ calls[t] = <<>>)
                /\ ( /\ Dispatched(t)
                     /\ IsSome(COMPILE_TIME_MIN_LEVEL)
                     /\ level >= Max(R, Unwrap(COMPILE_TIME_MIN_LEVEL))
                     /\ SinkAvailable(t) )
                   => /\ Len(SinkCalls(t)) = 1
                      /\ SinkCalls(t)[1].level = level
                      /\ SinkCalls(t)[1].args = payload[t].args

\* C11 witness: compile-time floor Trace, set_min_level(Warn) returned; of two
\* dispatches started afterwards the Info one invoked nothing and the Error
\* one reached the sink.
C11_Witness ==
    /\ COMPILE_TIME_MIN_LEVEL = Some(Trace)
    /\ last_set_level = Some(Warn)
    /\ \E t, u \in Threads :
        /\ FloorSettled(t) /\ Dispatched(t) /\ payload[t].level = Info
        /\ calls[t] = <<>>
        /\ FloorSettled(u) /\ Dispatched(u) /\ payload[u].level = Error
        /\ Len(SinkCalls(u)) = 1

\* ------------------------------------------------------------------- C12
\* C12: while set_min_level has never been called the runtime floor is Trace,
\* get_min_level returns the compile-time floor (None for Off), and the
\* compile-time floor alone decides the gate: a dispatch goes past the gate
\* exactly when its level is at least the compile-time floor, and, a sink
\* being available, a dispatch that returned invoked the sink once with its
\* own level and message when it passed and nothing when it did not.
C12_CompileFloorAloneByDefault ==
    last_set_level = None =>
        /\ RUNTIME_MIN_LEVEL = Trace
        /\ \A t \in Threads :
            LET passes == /\ IsSome(COMPILE_TIME_MIN_LEVEL)
                          /\ payload[t].level >= Unwrap(COMPILE_TIME_MIN_LEVEL)
            IN  /\ op[t] = "get_min_level" => ret[t] = COMPILE_TIME_MIN_LEVEL
                /\ (op[t] = "log" /\ ~passes) => (Dispatched(t) /\ calls[t] = <<>>)
                /\ (op[t] = "log" /\ passes) => runtime_min_level[t] = Some(Trace)
                /\ (Dispatched(t) /\ passes /\ SinkAvailable(t)) =>
                       /\ Len(SinkCalls(t)) = 1
                       /\ SinkCalls(t)[1].level = payload[t].level
                       /\ SinkCalls(t)[1].args = payload[t].args

\* C12 witness: compile-time floor Info and no set_min_level call; a Debug
\* dispatch invoked nothing, a Warn dispatch with message "m2" reached the
\* sink with level Warn and that message.
C12_Witness ==
    /\ COMPILE_TIME_MIN_LEVEL = Some(Info)
    /\ last_set_level = None
    /\ \E t, u \in Threads :
        /\ Dispatched(t) /\ payload[t].level = Debug /\ calls[t] = <<>>
        /\ Dispatched(u) /\ payload[u] = [level |-> Warn, args |-> "m2"]
        /\ Len(SinkCalls(u)) = 1
        /\ SinkCalls(u)[1].level = Warn /\ SinkCalls(u)[1].args = "m2"

C14_WitnessRejected ==
    \E t, u \in Threads :
        /\ COMPILE_TIME_MIN_LEVEL = Some(Debug) /\ last_set_level = Some(Warn)
        /\ op[t] = "get_min_level" /\ seen_level[t] = Some(Warn) /\ ret[t] = Some(Warn)
        /\ FloorSettled(u) /\ Dispatched(u) /\ payload[u].level = Info
        /\ SinkAvailable(u) /\ calls[u] = <<>>

\* ------------------------------------------------------------------- C15
\* A sink was available when the dispatch of thread t started: the default is
\* compiled in, or the first set_logger call returned before it started.
SinkAvailableAtStart(t) ==
    \/ feature_std
    \/ registered # <<>> /\ "first set_logger" \notin since[t]

\* In every state: no dispatch invokes a sink twice, and a dispatch that got
\* past the gate with a sink available when it started, and returned, invoked
\* one sink once, the default or a registered one, whatever set_logger calls
\* overlapped it.
C15_OneSinkOnce ==
    \A t \in Threads :
        /\ Len(SinkCalls(t)) <= 1
        /\ pc[t] # "ub"
        /\ (Dispatched(t) /\ PassedGate(t) /\ SinkAvailableAtStart(t)) =>
               /\ Len(SinkCalls(t)) = 1
               /\ SinkCalls(t)[1].fn \in LoggerFns \cup {stdout_logger_fn}

\* In every step: the sink a dispatch resolves is the value LOGGER_FN holds at
\* that step of the dispatch; while the dispatch waits to call it, no step of
\* another thread (a set_logger that completes, a default installed) changes
\* it; and the call made is to that sink, with the dispatch's record.
C15_ResolvedSinkIsCalled ==
    \A t \in Threads :
        /\ logger_fn'[t] \notin {logger_fn[t], NoPtr} => logger_fn'[t] = LOGGER_FN
        /\ (pc[t] = "call_logger" /\ pc'[t] = "call_logger") => logger_fn'[t] = logger_fn[t]
        /\ (pc[t] = "call_logger" /\ pc'[t] # "call_logger") =>
               calls'[t] = Append(calls[t], [callee |-> "logger", fn |-> logger_fn[t],
                                             level |-> payload[t].level,
                                             args |-> payload[t].args])

\* C15: every dispatch of an enabled record, in a build or state where a sink
\* is available, invokes exactly one sink exactly once even while set_logger
\* calls run concurrently; the sink it invokes is a value the slot held at a
\* moment of that dispatch; and a set_logger that completes after the dispatch
\* resolved its sink does not change the sink it calls.
C15_ExactlyOneSinkUnderRegistration ==
    []C15_OneSinkOnce /\ [][C15_ResolvedSinkIsCalled]_vars

\* C15 witness: in a build without the default sink, logger_a was registered,
\* a dispatch started, and set_logger(logger_b) returned while it was under
\* way; the dispatch invoked logger_a, once, and the slot now holds logger_b.
C15_Witness ==
    \E t \in Threads :
        /\ ~feature_std
        /\ registered = <<"logger_a", "logger_b">> /\ LOGGER_FN = "logger_b"
        /\ Dispatched(t) /\ PassedGate(t)
        /\ since[t] = {"set_logger"}
        /\ Len(SinkCalls(t)) = 1 /\ SinkCalls(t)[1].fn = "logger_a"

\* ------------------------------------------------------------------- C16
\* C16: the extension slot has no default.  While set_extension has never
\* been called EXTENSION_FN is null, whatever log, set_logger and
\* set_min_level calls have run and however they interleaved; no dispatch
\* holds or has invoked an extension; and a dispatch that got past the gate
\* with a sink available, and returned, invoked the sink and nothing else.
C16_NoDefaultExtension ==
    ~set_extension_called =>
        /\ EXTENSION_FN = null
        /\ \A t \in Threads :
            /\ extension_fn[t] = NoPtr /\ pc[t] # "call_extension"
            /\ ExtensionCalls(t) = <<>>
            /\ (Dispatched(t) /\ PassedGate(t) /\ SinkAvailableAtStart(t)) =>
                   /\ Len(calls[t]) = 1
                   /\ calls[t][1].callee = "logger"

\* C16 witness: set_logger and set_min_level have been called, set_extension
\* never; a dispatch that passed the gate invoked the registered sink alone.
C16_Witness ==
    \E t \in Threads :
        /\ ~set_extension_called
        /\ registered # <<>> /\ IsSome(last_set_level)
        /\ Dispatched(t) /\ PassedGate(t)
        /\ EXTENSION_FN = null
        /\ calls[t] = <<Invocation("logger", registered[1], payload[t])>>

\* ------------------------------------------------------------------- C17
\* How far into its call a thread is; a step of the call moves it up.
Rank(at) ==
    CASE at = "get_extension" -> 1
      [] at = "call_extension" -> 2
      [] at = "get_logger" -> 3
      [] at = "compare_exchange" -> 4
      [] at = "reload" -> 5
      [] at = "call_logger" -> 6
      [] OTHER -> 7

\* Every step a thread takes inside a call takes it further down the code of
\* log and get_logger, never back: at most six steps to the return, and the
\* compare_exchange is behind it once made.
C17_CallAdvances ==
    \A t \in Threads :
        /\ Step(t) => pc'[t] # pc[t]
        /\ (pc[t] # "idle" /\ pc'[t] # pc[t]) => Rank(pc'[t]) > Rank(pc[t])
        /\ (pc[t] = "compare_exchange" /\ pc'[t] # pc[t]) => pc'[t] = "reload"

\* C17: no operation blocks.  The setters and get_min_level return in the step
\* that calls them; under fair scheduling a thread inside log returns, after
\* steps that only move forward, and get_logger makes its compare_exchange at
\* most once and goes on whether or not it succeeded.
C17_NoOperationBlocks ==
    /\ \A t \in Threads : (pc[t] # "idle") ~> (pc[t] = "idle")
    /\ [][C17_CallAdvances]_vars
    /\ [](\A t \in Threads : pc[t] # "idle" => op[t] = "log")

\* C17 witness: both threads dispatched at once in a build with the default
\* sink; one compare_exchange succeeded, the other failed, neither was
\* repeated, and both dispatches returned having called the default sink.
C17_Witness ==
    /\ feature_std /\ registered = <<>> /\ cas_ok_count = 1
    /\ calls_made = 2
    /\ \A t \in Threads :
        /\ Dispatched(t) /\ PassedGate(t)
        /\ since[t] = {}
        /\ Len(SinkCalls(t)) = 1 /\ SinkCalls(t)[1].fn = stdout_logger_fn

\* ------------------------------------------------------------------- C18
\* The levels the gate of log lets through, lines 494-511, for a compile-time
\* floor and a value of RUNTIME_MIN_LEVEL.
PassingLevels(compile_time, runtime) ==
    {L \in Level : is_compile_time_enabled(compile_time, L) /\ ~runtime_rejects(L, runtime)}

\* The call set_min_level(Level::Debug) by some thread, in a build with
\* compile-time floor Info.
SetDebugUnderInfo ==
    /\ COMPILE_TIME_MIN_LEVEL = Some(Info)
    /\ \E t \in Threads : SetMinLevel(t, Debug)

\* The levels passing the gate and the result of get_min_level are the same
\* after the step as before it.
GateUnchanged ==
    /\ PassingLevels(COMPILE_TIME_MIN_LEVEL, RUNTIME_MIN_LEVEL') =
           PassingLevels(COMPILE_TIME_MIN_LEVEL, RUNTIME_MIN_LEVEL)
    /\ get_min_level(COMPILE_TIME_MIN_LEVEL, RUNTIME_MIN_LEVEL') =
           get_min_level(COMPILE_TIME_MIN_LEVEL, RUNTIME_MIN_LEVEL)

C19_DefaultExtensionImplProvided ==
    ( /\ feature_static
      /\ COMPILE_TIME_MIN_LEVEL # None
      /\ "__loggery_log_impl" \in DefinedSymbols
      /\ "__loggery_extension_impl" \notin embedder_symbols )
    => /\ program # "link_error"
       /\ \A t \in Threads :
              (Dispatched(t) /\ PassedGate(t)) =>
                  /\ Len(calls[t]) = 2
                  /\ calls[t][1].callee = "extension"
                  /\ calls[t][2].callee = "logger"

\* ------------------------------------------------------------------- C20
\* C20: when set_logger(A) and set_logger(B), called by threads running
\* concurrently, have both returned, the slot holds exactly A or exactly B,
\* not null, not the default and no third value (each store is atomic); and
\* every dispatch that started after both returned resolves and invokes the
\* one sink the slot holds, once if it got past the gate.
C20_ConcurrentRegistrations ==
    Len(registered) = 2 =>
        /\ LOGGER_FN \in {registered[1], registered[2]}
        /\ LOGGER_FN \in LoggerFns
        /\ \A t \in Threads :
            (op[t] = "log" /\ "set_logger" \notin since[t]) =>
                /\ logger_fn[t] \in {NoPtr, LOGGER_FN}
                /\ \A i \in 1..Len(SinkCalls(t)) : SinkCalls(t)[i].fn = LOGGER_FN
                /\ (Dispatched(t) /\ PassedGate(t)) => Len(SinkCalls(t)) = 1

\* C20 witness: the last call of each thread is a set_logger, one with
\* logger_b and one with logger_a; both returned, the store of logger_a
\* landing last, and the slot holds logger_a.
C20_Witness ==
    /\ op = [t \in Threads |-> "set_logger"]
    /\ registered = <<"logger_b", "logger_a">>
    /\ LOGGER_FN = "logger_a"

\* C20 witness, a dispatch afterwards: both registrations returned, then a
\* dispatch started and invoked logger_a, the sink the slot holds.
C20_WitnessDispatch ==
    \E t \in Threads :
        /\ registered = <<"logger_b", "logger_a">>
        /\ Dispatched(t) /\ PassedGate(t) /\ since[t] = {}
        /\ SinkCalls(t) = <<Invocation("logger", "logger_a", payload[t])>>

\* ------------------------------------------------------------------- C21
\* No step stores null into a slot, and a slot that holds a pointer holds one
\* after the step.
C21_NoStoreOfNull ==
    /\ LOGGER_FN # null => LOGGER_FN' # null
    /\ EXTENSION_FN # null => EXTENSION_FN' # null
    /\ LOGGER_FN' # LOGGER_FN => LOGGER_FN' # null
    /\ EXTENSION_FN' # EXTENSION_FN => EXTENSION_FN' # null

\* C21: the slots never return to empty.  Once LOGGER_FN is not null it is
\* not null in every later state, and likewise EXTENSION_FN; no operation
\* stores null.  In every state, accordingly, the sink slot is not null once a
\* set_logger returned or a compare_exchange succeeded, and the extension
\* slot is not null once set_extension was called.
C21_SlotsNeverReturnToEmpty ==
    /\ [][C21_NoStoreOfNull]_vars
    /\ []((registered # <<>> \/ cas_ok_count > 0) => LOGGER_FN # null)
    /\ [](set_extension_called => EXTENSION_FN # null)

\* C21 witness: the sink slot went from null to the default (a compare_exchange
\* succeeded) and from the default to a registered sink, the extension slot
\* was set, and neither is null.
C21_Witness ==
    /\ cas_ok_count = 1 /\ registered # <<>> /\ set_extension_called
    /\ LOGGER_FN \in LoggerFns
    /\ EXTENSION_FN \in ExtensionFns

\* ------------------------------------------------------------------- C22
\* The step writes the default sink into the sink slot.
DefaultInstalled == LOGGER_FN # stdout_logger_fn /\ LOGGER_FN' = stdout_logger_fn

\* A step that writes the default writes it into an empty slot and is the first
\* such step of the run; a step from a slot that holds a registered sink does
\* not leave the default in it.
C22_DefaultOnlyFromEmpty ==
    /\ DefaultInstalled => /\ LOGGER_FN = null
                           /\ cas_ok_count = 0 /\ cas_ok_count' = 1
    /\ LOGGER_FN \in LoggerFns => LOGGER_FN' # stdout_logger_fn

\* C22: the default sink is written to the sink slot only by a transition from
\* empty, and at most one such transition happens in a run, whatever
\* dispatches and set_logger calls run concurrently; a slot that holds a
\* registered sink is never changed to the default.
C22_DefaultWrittenOnceFromEmpty ==
    /\ [][C22_DefaultOnlyFromEmpty]_vars
    /\ [](cas_ok_count <= 1)
    /\ [](LOGGER_FN = stdout_logger_fn => cas_ok_count = 1)

\* C22 witness: the one successful compare_exchange installed the default; a
\* set_logger replaced it while the dispatch of thread t, which had loaded an
\* empty slot, was under way; t is past its compare_exchange and the slot
\* holds the registered sink.
C22_Witness ==
    \E t \in Threads :
        /\ cas_ok_count = 1 /\ Len(registered) = 1
        /\ LOGGER_FN = registered[1]
        /\ pc[t] = "reload" /\ ptr[t] = null
        /\ "set_logger" \in since[t]

\* ------------------------------------------------------------------- C23
\* The step is a step of some thread's dispatch: the call of log or a later
\* step of it.
DispatchStep ==
    \E t \in Threads :
        \/ \E p \in Payload : Log(t, p)
        \/ Step(t)

\* What each operation leaves alone.
C23_Frames ==
    /\ (\E t \in Threads, level \in Level : SetMinLevel(t, level)) =>
           /\ LOGGER_FN' = LOGGER_FN
           /\ EXTENSION_FN' = EXTENSION_FN
    /\ (\E t \in Threads, f \in LoggerFns : SetLogger(t, f)) =>
           /\ EXTENSION_FN' = EXTENSION_FN
           /\ RUNTIME_MIN_LEVEL' = RUNTIME_MIN_LEVEL
    /\ (\E t \in Threads, f \in ExtensionFns : SetExtension(t, f)) =>
           /\ LOGGER_FN' = LOGGER_FN
           /\ RUNTIME_MIN_LEVEL' = RUNTIME_MIN_LEVEL
    /\ (\E t \in Threads : GetMinLevel(t)) =>
           /\ LOGGER_FN' = LOGGER_FN
           /\ EXTENSION_FN' = EXTENSION_FN
           /\ RUNTIME_MIN_LEVEL' = RUNTIME_MIN_LEVEL
    /\ DispatchStep =>
           /\ EXTENSION_FN' = EXTENSION_FN
           /\ RUNTIME_MIN_LEVEL' = RUNTIME_MIN_LEVEL
           /\ \/ LOGGER_FN' = LOGGER_FN
              \/ LOGGER_FN = null /\ LOGGER_FN' = stdout_logger_fn

\* C23: the three pieces of shared state are independent.  set_min_level
\* changes only the runtime floor, set_logger only the sink slot,
\* set_extension only the extension slot, get_min_level nothing, and a
\* dispatch at most the sink slot, and that only from null to the default.
C23_SharedStateIndependent ==
    [][C23_Frames]_vars

\* C23 witness: set_min_level(Warn), set_logger(logger_a) and
\* set_extension(extension_a) were called, in some order, and nothing else;
\* each piece of state holds what its own setter stored.
C23_Witness ==
    /\ calls_made = 3
    /\ last_set_level = Some(Warn) /\ RUNTIME_MIN_LEVEL = Warn
    /\ registered = <<"logger_a">> /\ LOGGER_FN = "logger_a"
    /\ set_extension_called /\ EXTENSION_FN = "extension_a"

\* C23 witness, a dispatch: after set_min_level(Warn) and set_extension, an
\* Error dispatch called the extension and the sink and installed the default;
\* the floor and the extension slot are as the setters left them.
C23_WitnessDispatch ==
    \E t \in Threads :
        /\ calls_made = 3
        /\ RUNTIME_MIN_LEVEL = Warn /\ EXTENSION_FN = "extension_a"
        /\ LOGGER_FN = stdout_logger_fn /\ cas_ok_count = 1
        /\ Dispatched(t) /\ payload[t].level = Error /\ Len(calls[t]) = 2

====
